---- MODULE Spec2Model ----
(***************************************************************************)
(* American option pricing: the CRR binomial lattice                       *)
(* (crr_american_option_pricing.py, CRR_pricing_model.py) and the          *)
(* Longstaff-Schwartz Monte Carlo pricer                                   *)
(* (lsmc_american_option_pricing.py), with their finite-difference Greeks. *)
(*                                                                         *)
(* Numbers.  Python floats are modelled as fixed-point integers: the real  *)
(* x is the integer floor(x * SCALE).  Products and quotients round        *)
(* towards minus infinity, which is monotone like IEEE rounding.  exp is   *)
(* its Taylor polynomial, sqrt the integer square root.  A float that is   *)
(* nan is carried as an explicit flag, never as a number.                  *)
(*                                                                         *)
(* Generator.  numpy's global Mersenne Twister is modelled as a linear     *)
(* congruential generator over RngMod states; a standard-normal draw maps  *)
(* the state to one entry of ZTable.  What the model keeps is what the     *)
(* code relies on: one process-wide state, np.random.seed resets it, and   *)
(* every draw advances it.                                                 *)
(***************************************************************************)
EXTENDS Integers, Sequences, FiniteSets

----------------------------------------------------------------------------
(* Fixed-point arithmetic *)

SCALE == 1000

ONE == SCALE

FMul(a, b) == (a * b) \div SCALE

FDiv(a, b) == (a * SCALE) \div b

Max(a, b) == IF a >= b THEN a ELSE b

\* Number of Taylor terms of exp after the constant term.
ExpTerms == 8

RECURSIVE ExpSum(_, _, _)
ExpSum(x, k, term) ==
    IF k > ExpTerms THEN 0
    ELSE LET t == (term * x) \div (k * SCALE)
         IN  t + ExpSum(x, k + 1, t)

\* np.exp
Exp(x) == ONE + ExpSum(x, 1, ONE)

RECURSIVE ISqrt(_, _, _)
ISqrt(v, lo, hi) ==
    IF lo >= hi THEN lo
    ELSE LET mid == (lo + hi + 1) \div 2
         IN  IF mid * mid <= v THEN ISqrt(v, mid, hi) ELSE ISqrt(v, lo, mid - 1)

\* np.sqrt of a non-negative number (the callers test the sign first).
Sqrt(x) == ISqrt(x * SCALE, 0, 40 * SCALE)

RECURSIVE Pow(_, _)
Pow(b, e) == IF e <= 0 THEN ONE ELSE FMul(Pow(b, e - 1), b)

\* F applied to the value of e, with e evaluated once.
Let(F(_), e) == CHOOSE r \in {F(v) : v \in {e}} : TRUE

----------------------------------------------------------------------------
(* Floats that may be nan, and the outcome of a call *)

Num(x) == [nan |-> FALSE, v |-> x]

NaN == [nan |-> TRUE, v |-> 0]

NSub(a, b) == IF a.nan \/ b.nan THEN NaN ELSE Num(a.v - b.v)

NAdd(a, b) == IF a.nan \/ b.nan THEN NaN ELSE Num(a.v + b.v)

NTimesInt(k, a) == IF a.nan THEN NaN ELSE Num(k * a.v)

NNeg(a) == IF a.nan THEN NaN ELSE Num(0 - a.v)

\* a / den for a float den: numpy gives nan or inf on a zero divisor.
NDivBy(a, den) == IF a.nan \/ den = 0 THEN NaN ELSE Num(FDiv(a.v, den))

Returned(x) == [kind |-> "value", val |-> Num(x), err |-> "none"]

ReturnedNaN == [kind |-> "value", val |-> NaN, err |-> "none"]

Raised(e) == [kind |-> "raise", val |-> NaN, err |-> e]

NoOutcome == [kind |-> "none", val |-> NaN, err |-> "none"]

\* The float a call returned (nan for a call that raised: never read then).
ValOf(o) == o.val

----------------------------------------------------------------------------
(* CRRBinomialOptionPricing: the lattice pricer *)

NoObj == [cls |-> "none"]

\* __init__: the fields and the derived dt, u, d, p.  n = 0 divides by zero;
\* n < 0 makes dt negative and np.sqrt(dt) nan, so u, d and p are nan.
CRRFields(S, K, T, r, sigma, n, option_type, american) ==
    LET dt == T \div n
        real == dt >= 0
        u  == IF real THEN Exp(FMul(sigma, Sqrt(dt))) ELSE 0
        d  == IF real THEN FDiv(ONE, u) ELSE 0
        finite == real /\ u # d
        p  == IF finite THEN FDiv(Exp(FMul(r, dt)) - d, u - d) ELSE 0
    IN  [cls |-> "crr", S |-> S, K |-> K, T |-> T, r |-> r, sigma |-> sigma,
         n |-> n, option_type |-> option_type, american |-> american,
         dt |-> dt, u |-> u, d |-> d, p |-> p, one_minus_p |-> ONE - p,
         nan |-> ~finite]

CRRInit(S, K, T, r, sigma, n, option_type, american) ==
    IF n = 0 THEN [outcome |-> Raised("ZeroDivisionError"), obj |-> NoObj]
    ELSE [outcome |-> NoOutcome,
          obj |-> CRRFields(S, K, T, r, sigma, n, option_type, american)]

\* build_stock_price_tree: entry j (from 0) is S * u**j * d**(n-j); empty for n < 0.
build_stock_price_tree(o) ==
    [k \in 1..(o.n + 1) |-> FMul(FMul(o.S, Pow(o.u, k - 1)), Pow(o.d, o.n - (k - 1)))]

option_payoff(o, stock_price) ==
    [k \in 1..Len(stock_price) |->
        IF o.option_type = "call" THEN Max(stock_price[k] - o.K, 0)
        ELSE Max(o.K - stock_price[k], 0)]

\* The collapse stepping down instead of up: stock_price[:-1] * d
CollapseStockDown(o, stock_price) ==
    [k \in 1..(Len(stock_price) - 1) |-> FMul(stock_price[k], o.d)]

\* stock_price[:-1] * u
CollapseStock(o, stock_price) ==
    [k \in 1..(Len(stock_price) - 1) |-> FMul(stock_price[k], o.u)]

\* exp(-r*dt) * (p * V[1:] + (1-p) * V[:-1])
DiscountedExpectation(o, option_values) ==
    [k \in 1..(Len(option_values) - 1) |->
        FMul(Exp(FMul(0 - o.r, o.dt)),
             FMul(o.p, option_values[k + 1]) + FMul(o.one_minus_p, option_values[k]))]

\* The early-exercise check of one level: np.maximum(V, S - K) or (V, K - S).
EarlyExercise(o, values, stock_price) ==
    [k \in 1..Len(values) |->
        IF o.option_type = "call" THEN Max(values[k], stock_price[k] - o.K)
        ELSE Max(values[k], o.K - stock_price[k])]

\* One pass of the loop body of price().
InductionStep(o, stock_price, option_values) ==
    LET sp == CollapseStock(o, stock_price)
        ev == DiscountedExpectation(o, option_values)
    IN  [stock_price |-> sp,
         option_values |-> IF o.american THEN EarlyExercise(o, ev, sp) ELSE ev]

RECURSIVE Induct(_, _, _, _)
Induct(o, i, stock_price, option_values) ==
    IF i < 0 THEN option_values
    ELSE Let(LAMBDA nx : Induct(o, i - 1, nx.stock_price, nx.option_values),
             InductionStep(o, stock_price, option_values))

\* return option_values[0]: IndexError on the empty array of n < 0; nan when
\* the probabilities are nan.
RootValue(o, option_values) ==
    IF Len(option_values) = 0 THEN Raised("IndexError")
    ELSE IF o.nan THEN ReturnedNaN
    ELSE Returned(option_values[1])

\* price(), as one function: what a Greek leg calls.
CRRPrice(o) ==
    IF o.nan /\ o.n >= 1 THEN ReturnedNaN
    ELSE LET sp == build_stock_price_tree(o)
         IN  RootValue(o, Induct(o, o.n - 1, sp, option_payoff(o, sp)))

\* epsilon = 0.01 of greeks(), and the 0.01 of CRR_pricing_model's vega and rho.
Epsilon == SCALE \div 100

\* CRRBinomialOptionPricing(S, K, T, r, sigma, n, ...).price() on a fresh
\* object: the constructor never sees n = 0 here, n is the caller's own.
CRRLeg(o, S, T, r, sigma) ==
    CRRPrice(CRRFields(S, o.K, T, r, sigma, o.n, o.option_type, o.american))

\* One finite-difference leg as the Greeks record it: the variable bumped,
\* its value in the object whose Greek is computed, and the value priced.
LegRec(greek, var, base, arg, outcome) ==
    [greek |-> greek, var |-> var, base |-> base, arg |-> arg, outcome |-> outcome]

FirstRaise(legs) ==
    LET bad == {k \in 1..Len(legs) : legs[k].outcome.kind = "raise"}
    IN  IF bad = {} THEN NoOutcome
        ELSE legs[CHOOSE k \in bad : \A m \in bad : k <= m].outcome

\* The legs that ran: the call ends at the first leg that raises.
UpToFirstRaise(legs) ==
    LET bad == {k \in 1..Len(legs) : legs[k].outcome.kind = "raise"}
    IN  IF bad = {} THEN legs
        ELSE SubSeq(legs, 1, CHOOSE k \in bad : \A m \in bad : k <= m)

NoGreeks == [Delta |-> NaN, Gamma |-> NaN, Theta |-> NaN, Vega |-> NaN, Rho |-> NaN]

\* greeks() of crr_american_option_pricing.py.
CRRGreeks(o) ==
    LET epsilon    == Epsilon
        own        == CRRPrice(o)
        price_up   == CRRLeg(o, FMul(o.S, ONE + epsilon), o.T, o.r, o.sigma)
        price_down == CRRLeg(o, FMul(o.S, ONE - epsilon), o.T, o.r, o.sigma)
        price_up2  == CRRLeg(o, FMul(o.S, ONE + 2 * epsilon), o.T, o.r, o.sigma)
        price_down2 == CRRLeg(o, FMul(o.S, ONE - 2 * epsilon), o.T, o.r, o.sigma)
        price_theta == CRRLeg(o, o.S, o.T - o.dt, o.r, o.sigma)
        price_vega == CRRLeg(o, o.S, o.T, o.r, o.sigma + epsilon)
        price_rho  == CRRLeg(o, o.S, o.T, o.r + epsilon, o.sigma)
        legs == << LegRec("Delta", "S", o.S, FMul(o.S, ONE + epsilon), price_up),
                   LegRec("Delta", "S", o.S, FMul(o.S, ONE - epsilon), price_down),
                   LegRec("Gamma", "S", o.S, FMul(o.S, ONE + 2 * epsilon), price_up2),
                   LegRec("Gamma", "S", o.S, FMul(o.S, ONE - 2 * epsilon), price_down2),
                   LegRec("Gamma", "S", o.S, o.S, own),
                   LegRec("Theta", "T", o.T, o.T - o.dt, price_theta),
                   LegRec("Vega", "sigma", o.sigma, o.sigma + epsilon, price_vega),
                   LegRec("Rho", "r", o.r, o.r + epsilon, price_rho) >>
        delta == NDivBy(NSub(ValOf(price_up), ValOf(price_down)),
                        FMul(2 * o.S, epsilon))
        gamma == NDivBy(NAdd(NSub(ValOf(price_up2), NTimesInt(2, ValOf(own))),
                             ValOf(price_down2)),
                        FMul(FMul(o.S, epsilon), FMul(o.S, epsilon)))
        theta == NDivBy(NSub(ValOf(price_theta), ValOf(own)), o.dt)
        vega  == NDivBy(NSub(ValOf(price_vega), ValOf(own)), epsilon)
        rho   == NDivBy(NSub(ValOf(price_rho), ValOf(own)), epsilon)
    IN  [legs |-> UpToFirstRaise(legs),
         outcome |-> FirstRaise(legs),
         greeks |-> IF FirstRaise(legs).kind = "raise" THEN NoGreeks
                    ELSE [Delta |-> delta, Gamma |-> gamma, Theta |-> theta,
                          Vega |-> vega, Rho |-> rho]]

\* greeks() bumping the spot of self in place for its first leg and never
\* putting it back.
CRRGreeksSelfBumped(o) == [o EXCEPT !.S = FMul(o.S, ONE + Epsilon)]

\* The object after greeks() of crr_american_option_pricing.py: every leg is
\* a new CRRBinomialOptionPricing, and self is only read.
CRRGreeksSelf(o) == o

\* The object after greeks() of CRR_pricing_model.py: likewise only read.
CRRModelGreeksSelf(o) == o

\* greeks() of CRR_pricing_model.py: the spot legs sit on the neighbouring
\* lattice nodes S*u and S*d.
CRRModelGreeks(o) ==
    LET S_up       == FMul(o.S, o.u)
        S_down     == FMul(o.S, o.d)
        own        == CRRPrice(o)
        price_up   == CRRLeg(o, S_up, o.T, o.r, o.sigma)
        price_down == CRRLeg(o, S_down, o.T, o.r, o.sigma)
        price_vega == CRRLeg(o, o.S, o.T, o.r, o.sigma + Epsilon)
        price_rho  == CRRLeg(o, o.S, o.T, o.r + Epsilon, o.sigma)
        legs == << LegRec("Delta", "S", o.S, S_up, price_up),
                   LegRec("Delta", "S", o.S, S_down, price_down),
                   LegRec("Gamma", "S", o.S, S_up, price_up),
                   LegRec("Gamma", "S", o.S, o.S, own),
                   LegRec("Gamma", "S", o.S, S_down, price_down),
                   LegRec("Vega", "sigma", o.sigma, o.sigma + Epsilon, price_vega),
                   LegRec("Rho", "r", o.r, o.r + Epsilon, price_rho) >>
        sq    == FMul(o.S, o.u - o.d)
        delta == NDivBy(NSub(ValOf(price_up), ValOf(price_down)), S_up - S_down)
        gamma == NDivBy(NAdd(NSub(ValOf(price_up), NTimesInt(2, ValOf(own))),
                             ValOf(price_down)),
                        FMul(sq, sq))
        theta == NDivBy(NNeg(NSub(ValOf(own), ValOf(price_down))), o.dt)
        vega  == NDivBy(NSub(ValOf(price_vega), ValOf(own)), Epsilon)
        rho   == NDivBy(NSub(ValOf(price_rho), ValOf(own)), Epsilon)
    IN  [legs |-> UpToFirstRaise(legs),
         outcome |-> FirstRaise(legs),
         greeks |-> IF FirstRaise(legs).kind = "raise" THEN NoGreeks
                    ELSE [Delta |-> delta, Gamma |-> gamma, Theta |-> theta,
                          Vega |-> vega, Rho |-> rho]]

----------------------------------------------------------------------------
(* numpy's global random generator *)

\* The literal of np.random.seed(42).
SeedValue == 42

\* Size of the generator's state space.
RngMod == 32

\* Standard-normal values a draw can take.
ZTable == << 0 - (3 * SCALE) \div 2, 0 - SCALE \div 2, SCALE \div 2, (3 * SCALE) \div 2 >>

\* The argument simulate_stock_paths passes to np.random.seed: the literal,
\* whatever seed the caller's configuration names.
SeedArgument(cfg) == SeedValue

\* np.random.seed(s): the state depends on s alone.
Seeded(s) == [seed |-> s, state |-> s % RngMod]

Advance(g) == [g EXCEPT !.state = (5 * g.state + 3) % RngMod]

\* The value of the draw that takes the generator to state g.
Normal(g) == ZTable[((g.state \div 8) % Len(ZTable)) + 1]

\* np.random.standard_normal(N): N draws, each advancing the generator.
RECURSIVE standard_normal(_, _)
standard_normal(g, N) ==
    IF N <= 0 THEN [z |-> << >>, rng |-> g]
    ELSE LET g1   == Advance(g)
             rest == standard_normal(g1, N - 1)
         IN  [z |-> << Normal(g1) >> \o rest.z, rng |-> rest.rng]

----------------------------------------------------------------------------
(* AmericanOptionsLSMC: the Monte Carlo pricer *)

\* Degree of the regression polynomial: the 2 of np.polyfit(x, y, 2).
Degree == 2

LSMCFields(S0, strike, T, M, r, div, sigma, option_type, simulations) ==
    LET dt == T \div M
    IN  [cls |-> "lsmc", S0 |-> S0, strike |-> strike, T |-> T, M |-> M, r |-> r,
         div |-> div, sigma |-> sigma, option_type |-> option_type,
         dt |-> dt, discount |-> Exp(FMul(0 - r, dt)), simulations |-> simulations]

\* __init__: T / M divides by zero for M = 0.
LSMCInit(S0, strike, T, M, r, div, sigma, option_type, simulations) ==
    IF M = 0 THEN [outcome |-> Raised("ZeroDivisionError"), obj |-> NoObj]
    ELSE [outcome |-> NoOutcome,
          obj |-> LSMCFields(S0, strike, T, M, r, div, sigma, option_type, simulations)]

RECURSIVE SumSeq(_)
SumSeq(q) == IF Len(q) = 0 THEN 0 ELSE q[1] + SumSeq(Tail(q))

RECURSIVE SumOver(_, _)
SumOver(f, I) ==
    IF I = {} THEN 0
    ELSE LET i == CHOOSE k \in I : TRUE IN f[i] + SumOver(f, I \ {i})

IdleFrame ==
    [pc |-> "idle", obj |-> NoObj, t |-> 0, stock_paths |-> << >>, payoffs |-> << >>,
     cashflows |-> << >>, seed |-> 0, draws |-> << >>, outcome |-> NoOutcome]

\* simulate_stock_paths without its np.random.seed call: the simulation
\* draws from wherever the generator stands.
MCStartNoSeed(o, cfg, g) ==
    LET N  == o.simulations
        f0 == [IdleFrame EXCEPT !.obj = o, !.seed = g.seed]
    IN  [rng |-> g,
         frame |->
            IF N < 0 \/ o.M + 1 < 0
            THEN [f0 EXCEPT !.pc = "done", !.outcome = Raised("ValueError")]
            ELSE IF o.M + 1 = 0
            THEN [f0 EXCEPT !.pc = "done", !.outcome = Raised("IndexError")]
            ELSE [f0 EXCEPT !.pc = "sim", !.t = 1,
                            !.stock_paths = [i \in 1..N |-> << o.S0 >>]]]

\* simulate_stock_paths seeding the generator only while nobody has seeded it
\* (seed -1): once per process rather than once per call.
MCStartSeedOnce(o, cfg, g) ==
    LET N  == o.simulations
        g1 == IF g.seed = 0 - 1 THEN Seeded(SeedArgument(cfg)) ELSE g
        f0 == [IdleFrame EXCEPT !.obj = o, !.seed = g1.seed]
    IN  [rng |-> g1,
         frame |->
            IF N < 0 \/ o.M + 1 < 0
            THEN [f0 EXCEPT !.pc = "done", !.outcome = Raised("ValueError")]
            ELSE IF o.M + 1 = 0
            THEN [f0 EXCEPT !.pc = "done", !.outcome = Raised("IndexError")]
            ELSE [f0 EXCEPT !.pc = "sim", !.t = 1,
                            !.stock_paths = [i \in 1..N |-> << o.S0 >>]]]

\* The price property up to the first column of simulate_stock_paths(N):
\* np.random.seed, np.zeros((N, M + 1)) and stock_paths[:, 0] = S0.
MCStart(o, cfg, g) ==
    LET N  == o.simulations
        g1 == Seeded(SeedArgument(cfg))
        f0 == [IdleFrame EXCEPT !.obj = o, !.seed = g1.seed]
    IN  [rng |-> g1,
         frame |->
            IF N < 0 \/ o.M + 1 < 0
            THEN [f0 EXCEPT !.pc = "done", !.outcome = Raised("ValueError")]
            ELSE IF o.M + 1 = 0
            THEN [f0 EXCEPT !.pc = "done", !.outcome = Raised("IndexError")]
            ELSE [f0 EXCEPT !.pc = "sim", !.t = 1,
                            !.stock_paths = [i \in 1..N |-> << o.S0 >>]]]

\* The growth factor of one path over one step, for the draw z.
Growth(o, z) ==
    Exp(FMul(o.r - o.div - FMul(SCALE \div 2, FMul(o.sigma, o.sigma)), o.dt)
        + FMul(FMul(o.sigma, Sqrt(o.dt)), z))

\* One pass of the loop of simulate_stock_paths: column t from column t - 1.
MCSimStep(f, g) ==
    LET o == f.obj
        N == o.simulations
        d == standard_normal(g, N)
    IN  [rng |-> d.rng,
         frame |-> [f EXCEPT
            !.t = f.t + 1,
            !.draws = f.draws \o d.z,
            !.stock_paths = [i \in 1..N |->
                Append(f.stock_paths[i], FMul(f.stock_paths[i][f.t], Growth(o, d.z[i])))]]]

\* payoffs = np.maximum(strike - paths or paths - strike, 0); cashflows = payoffs[:, -1]
MCPayoffs(f) ==
    LET o == f.obj
        N == o.simulations
        pay == [i \in 1..N |-> [c \in 1..(o.M + 1) |->
                   IF o.option_type = "put" THEN Max(o.strike - f.stock_paths[i][c], 0)
                   ELSE Max(f.stock_paths[i][c] - o.strike, 0)]]
    IN  [f EXCEPT !.pc = "back", !.t = o.M - 1, !.payoffs = pay,
                  !.cashflows = [i \in 1..N |-> pay[i][o.M + 1]]]

\* in_the_money = payoffs[:, t] > 0, as the set of path indices.
InTheMoney(f) == {i \in 1..Len(f.payoffs) : f.payoffs[i][f.t + 1] > 0}

Abs(a) == IF a < 0 THEN 0 - a ELSE a

SetMax(A) == CHOOSE a \in A : \A b \in A : b <= a

\* The least-squares fit of np.polyfit(x, y, Degree), evaluated by np.polyval
\* at the fitted abscissae themselves: the orthogonal projection of y on the
\* polynomials of degree <= Degree over the points I.
\*  - With at most Degree + 1 distinct abscissae a polynomial passes through
\*    the mean of y at each of them, so every least-squares solution (the
\*    minimum-norm one numpy returns for a rank-deficient system included)
\*    takes that mean there.
\*  - With more, the projection is computed on an orthogonal basis 1, p1, p2
\*    of the abscissae normalised to [-1, 1].
FittedValues(x, y, I) ==
    LET n == Cardinality(I)
        distinct == {x[i] : i \in I}
    IN  IF Cardinality(distinct) <= Degree + 1
        THEN [i \in I |->
                LET same == {j \in I : x[j] = x[i]}
                IN  SumOver(y, same) \div Cardinality(same)]
        ELSE
          LET xbar   == SumOver(x, I) \div n
              spread == SetMax({Abs(x[i] - xbar) : i \in I})
              xn == [i \in I |-> FDiv(x[i] - xbar, spread)]
              p1 == [i \in I |-> xn[i] - SumOver(xn, I) \div n]
              sq == [i \in I |-> FMul(xn[i], xn[i])]
              q  == [i \in I |-> sq[i] - SumOver(sq, I) \div n]
              n1 == SumOver([i \in I |-> FMul(p1[i], p1[i])], I)
              b  == IF n1 = 0 THEN 0
                    ELSE FDiv(SumOver([i \in I |-> FMul(q[i], p1[i])], I), n1)
              p2 == [i \in I |-> q[i] - FMul(b, p1[i])]
              n2 == SumOver([i \in I |-> FMul(p2[i], p2[i])], I)
              c0 == SumOver(y, I) \div n
              c1 == IF n1 = 0 THEN 0
                    ELSE FDiv(SumOver([i \in I |-> FMul(y[i], p1[i])], I), n1)
              c2 == IF n2 = 0 THEN 0
                    ELSE FDiv(SumOver([i \in I |-> FMul(y[i], p2[i])], I), n2)
          IN  [i \in I |-> c0 + FMul(c1, p1[i]) + FMul(c2, p2[i])]

\* The cashflows after the exercise decision of step t:
\* cashflows[itm] = np.where(exercise > continuation, exercise, cashflows[itm] * discount);
\* the paths outside itm are not assigned.
ExerciseDecision(f, itm, continuation_values) ==
    [i \in 1..Len(f.cashflows) |->
        IF i \in itm
        THEN IF f.payoffs[i][f.t + 1] > continuation_values[i]
             THEN f.payoffs[i][f.t + 1]
             ELSE FMul(f.cashflows[i], f.obj.discount)
        ELSE f.cashflows[i]]

\* One pass of the backward loop of price, at step f.t.  np.polyfit raises
\* TypeError on an empty x ("expected non-empty vector for x").
MCBackStep(f) ==
    LET itm == InTheMoney(f)
        x == [i \in 1..Len(f.cashflows) |-> f.stock_paths[i][f.t + 1]]
        y == [i \in 1..Len(f.cashflows) |-> FMul(f.cashflows[i], f.obj.discount)]
    IN  IF itm = {}
        THEN [f EXCEPT !.pc = "done", !.outcome = Raised("TypeError")]
        ELSE [f EXCEPT !.t = f.t - 1,
                       !.cashflows = ExerciseDecision(f, itm, FittedValues(x, y, itm))]

\* option_price = np.mean(cashflows) * discount; the mean of no paths is nan.
MCFinish(f) ==
    LET N == Len(f.cashflows)
    IN  [f EXCEPT !.pc = "done",
                  !.outcome = IF N = 0 THEN ReturnedNaN
                              ELSE Returned(FMul(SumSeq(f.cashflows) \div N, f.obj.discount))]

\* The next step of a running price call.
MCStep(f, g) ==
    IF f.pc = "sim" /\ f.t <= f.obj.M THEN MCSimStep(f, g)
    ELSE IF f.pc = "sim" THEN [frame |-> MCPayoffs(f), rng |-> g]
    ELSE IF f.t >= 1 THEN [frame |-> MCBackStep(f), rng |-> g]
    ELSE [frame |-> MCFinish(f), rng |-> g]

\* A price call run from frame f to its end, with the generator at g.
RECURSIVE MCRun(_, _)
MCRun(f, g) ==
    IF f.pc = "done" THEN [frame |-> f, rng |-> g]
    ELSE Let(LAMBDA s : MCRun(s.frame, s.rng), MCStep(f, g))

\* The price property on a fresh object, as a Greek leg reads it.
LSMCPrice(o, cfg, g) ==
    Let(LAMBDA s : MCRun(s.frame, s.rng), MCStart(o, cfg, g))

\* The 0.01 of the relative bumps S0 * 0.01, sigma * 0.01 and r * 0.01.
BumpFraction == SCALE \div 100

\* diff = 1 / 252. of theta
ThetaDiff == SCALE \div 252

\* The leg of a Monte Carlo Greek, with the seed its simulation started from
\* and the normal draws it consumed.
MCLegRec(greek, var, base, arg, run) ==
    [greek |-> greek, var |-> var, base |-> base, arg |-> arg,
     outcome |-> run.frame.outcome, seed |-> run.frame.seed, draws |-> run.frame.draws]

\* (myCall_1.price - myCall_2.price) on two fresh objects: the second price
\* is not read when the first raises.
PricePair(greek, var, base, o1, arg1, o2, arg2, cfg, g) ==
    Let(LAMBDA r1 :
          IF r1.frame.outcome.kind = "raise"
          THEN [legs |-> << MCLegRec(greek, var, base, arg1, r1) >>,
                outcome |-> r1.frame.outcome, val |-> NaN, rng |-> r1.rng]
          ELSE Let(LAMBDA r2 :
                     LET l1 == MCLegRec(greek, var, base, arg1, r1)
                         l2 == MCLegRec(greek, var, base, arg2, r2)
                     IN  IF r2.frame.outcome.kind = "raise"
                         THEN [legs |-> << l1, l2 >>, outcome |-> r2.frame.outcome,
                               val |-> NaN, rng |-> r2.rng]
                         ELSE [legs |-> << l1, l2 >>, outcome |-> NoOutcome,
                               val |-> NSub(ValOf(r1.frame.outcome), ValOf(r2.frame.outcome)),
                               rng |-> r2.rng],
                   LSMCPrice(o2, cfg, r1.rng)),
        LSMCPrice(o1, cfg, g))

Quotient(pair, den) ==
    IF pair.outcome.kind = "raise" THEN pair
    ELSE [pair EXCEPT !.outcome = [kind |-> "value", val |-> NDivBy(pair.val, den), err |-> "none"],
                      !.val = NDivBy(pair.val, den)]

\* The pair's difference over den, or the exception of the pair.
Finished(pair, den) == Let(LAMBDA q : Quotient(q, den), pair)

WithS0(o, S0) ==
    LSMCFields(S0, o.strike, o.T, o.M, o.r, o.div, o.sigma, o.option_type, o.simulations)

WithSigma(o, sigma) ==
    LSMCFields(o.S0, o.strike, o.T, o.M, o.r, o.div, sigma, o.option_type, o.simulations)

WithR(o, r) ==
    LSMCFields(o.S0, o.strike, o.T, o.M, r, o.div, o.sigma, o.option_type, o.simulations)

WithT(o, T) ==
    LSMCFields(o.S0, o.strike, T, o.M, o.r, o.div, o.sigma, o.option_type, o.simulations)

\* The object after one of the Greek properties: myCall_1 and myCall_2 are
\* new AmericanOptionsLSMC objects, and self is only read.
LSMCGreekSelf(o) == o

\* The delta property.
LSMCDelta(o, cfg, g) ==
    LET diff == FMul(o.S0, BumpFraction)
    IN  Finished(PricePair("Delta", "S", o.S0, WithS0(o, o.S0 + diff), o.S0 + diff,
                           WithS0(o, o.S0 - diff), o.S0 - diff, cfg, g),
                 2 * diff)

Relabel(legs, greek) == [k \in 1..Len(legs) |-> [legs[k] EXCEPT !.greek = greek]]

\* The gamma property: the difference of the deltas of two bumped objects.
LSMCGamma(o, cfg, g) ==
    LET diff == FMul(o.S0, BumpFraction)
    IN  Let(LAMBDA d1 :
              IF d1.outcome.kind = "raise"
              THEN [d1 EXCEPT !.legs = Relabel(d1.legs, "Gamma")]
              ELSE Let(LAMBDA d2 :
                         IF d2.outcome.kind = "raise"
                         THEN [d2 EXCEPT !.legs = Relabel(d1.legs \o d2.legs, "Gamma")]
                         ELSE Finished([legs |-> Relabel(d1.legs \o d2.legs, "Gamma"),
                                        outcome |-> NoOutcome,
                                        val |-> NSub(d1.val, d2.val), rng |-> d2.rng],
                                       2 * diff),
                       LSMCDelta(WithS0(o, o.S0 - diff), cfg, d1.rng)),
            LSMCDelta(WithS0(o, o.S0 + diff), cfg, g))

\* The vega property.
LSMCVega(o, cfg, g) ==
    LET diff == FMul(o.sigma, BumpFraction)
    IN  Finished(PricePair("Vega", "sigma", o.sigma, WithSigma(o, o.sigma + diff),
                           o.sigma + diff, WithSigma(o, o.sigma - diff),
                           o.sigma - diff, cfg, g),
                 2 * diff)

\* The rho property.
LSMCRho(o, cfg, g) ==
    LET diff == FMul(o.r, BumpFraction)
    IN  Finished(PricePair("Rho", "r", o.r, WithR(o, o.r + diff), o.r + diff,
                           WithR(o, o.r - diff), o.r - diff, cfg, g),
                 2 * diff)

\* The theta property: (myCall_2.price - myCall_1.price) / (2 diff), with
\* myCall_2 at T - diff (priced first) and myCall_1 at T + diff.
LSMCTheta(o, cfg, g) ==
    LET diff == ThetaDiff
    IN  Finished(PricePair("Theta", "T", o.T, WithT(o, o.T - diff), o.T - diff,
                           WithT(o, o.T + diff), o.T + diff, cfg, g),
                 2 * diff)

----------------------------------------------------------------------------
(* The caller: one pricer object at a time, its calls run one after another *)

MaxSteps == 3

MaxTimeSteps == 3

MaxPaths == 4

\* How many times the caller reads the price of one object.
MaxCalls == 2

Spots == {90 * SCALE, 110 * SCALE}

Strikes == {100 * SCALE}

Maturities == {ONE}

\* 10% and 50% a year; the second takes the lattice probability above 1.
LatticeRates == {SCALE \div 10, SCALE \div 2}

MCRates == {SCALE \div 10}

Vols == {SCALE \div 5}

OptionTypes == {"call", "put"}

\* Lattice steps, Monte Carlo time steps and path counts a caller may pass,
\* the nonpositive ones included.
StepChoices == (0 - 1)..MaxSteps

TimeStepChoices == (0 - 2)..MaxTimeSteps

PathChoices == (0 - 1)..MaxPaths

\* Seeds a caller's configuration may name.
ConfigSeeds == {7, SeedValue}

\* States the generator may be in before anyone seeds it (numpy seeds it
\* from the operating system).
EntropyStates == {3, 17}

\* The price frames of the Monte Carlo pricer.
Frames == {1, 2}

VARIABLES
    rng,      \* numpy's global generator: the last seed and the state
    obj,      \* the pricer object the caller holds
    config,   \* the caller's Monte Carlo configuration (its seed)
    lat,      \* the running lattice price(): pc, i, stock_price, option_values
    mc,       \* the Monte Carlo price frames
    first,    \* the first price obj returned (outcome, seed, draws), the number
              \* of price calls ended, and whether Greeks ran after the first
    out,      \* the last call to end: op, outcome
    greek     \* the last Greeks computed: legs, values

vars == << rng, obj, config, lat, mc, first, out, greek >>

IdleLattice == [pc |-> "idle", i |-> 0, stock_price |-> << >>, option_values |-> << >>]

NoFirst == [outcome |-> NoOutcome, seed |-> 0, draws |-> << >>, calls |-> 0,
            greeks_since |-> FALSE]

\* The record of a price call that ended with res.
PriceEnded(res, seed, draws) ==
    IF first.calls = 0
    THEN [outcome |-> res, seed |-> seed, draws |-> draws, calls |-> 1,
          greeks_since |-> FALSE]
    ELSE [first EXCEPT !.calls = first.calls + 1]

\* The record after a Greeks call.
GreeksEnded == [first EXCEPT !.greeks_since = first.calls >= 1]

NoOut == [op |-> "none", outcome |-> NoOutcome, nonpositive |-> FALSE]

\* A call ended: what it was, how it ended, and whether its steps, paths or
\* timeSteps were nonpositive.
Ended(op, outcome, nonpositive) ==
    [op |-> op, outcome |-> outcome, nonpositive |-> nonpositive]

NonPositive(o) ==
    IF o.cls = "crr" THEN o.n <= 0 ELSE o.M <= 0 \/ o.simulations <= 0

NoGreek == [name |-> "none", legs |-> << >>, greeks |-> NoGreeks, val |-> NaN]

Quiet == lat.pc = "idle" /\ \A c \in Frames : mc[c].pc \in {"idle", "done"}

Init ==
    /\ rng \in {[seed |-> 0 - 1, state |-> e] : e \in EntropyStates}
    /\ obj = NoObj
    /\ config = [seed |-> SeedValue]
    /\ lat = IdleLattice
    /\ mc = [c \in Frames |-> IdleFrame]
    /\ first = NoFirst
    /\ out = NoOut
    /\ greek = NoGreek

\* The caller computes Greeks at most once between two price calls of an
\* object.
NoGreeksYet == greek = NoGreek

\* The generator as the process started it: nobody has seeded it.
Unseeded == rng.seed = 0 - 1

\* CRRBinomialOptionPricing(S, K, T, r, sigma, n, option_type, american).
\* The lattice neither reads nor writes the generator, so its objects are
\* explored with the generator unseeded only.
NewCRR ==
    /\ obj = NoObj
    /\ Quiet
    /\ Unseeded
    /\ \E S \in Spots, K \in Strikes, T \in Maturities, r \in LatticeRates,
          sigma \in Vols, n \in StepChoices, ot \in OptionTypes, am \in BOOLEAN :
          LET made == CRRInit(S, K, T, r, sigma, n, ot, am)
          IN  /\ obj' = made.obj
              /\ out' = Ended("CRR.__init__", made.outcome, n <= 0)
    /\ first' = NoFirst
    /\ greek' = NoGreek
    /\ UNCHANGED << rng, config, lat, mc >>

\* AmericanOptionsLSMC(S0, strike, T, M, r, div, sigma, option_type, simulations),
\* by a caller whose configuration names a seed the constructor has no
\* parameter for.
NewLSMC ==
    /\ obj = NoObj
    /\ Quiet
    /\ \E S0 \in Spots, K \in Strikes, T \in Maturities, M \in TimeStepChoices,
          r \in MCRates, sigma \in Vols, ot \in OptionTypes, N \in PathChoices :
          LET made == LSMCInit(S0, K, T, M, r, 0, sigma, ot, N)
          IN  /\ obj' = made.obj
              /\ out' = Ended("LSMC.__init__", made.outcome, M <= 0 \/ N <= 0)
    /\ \E s \in ConfigSeeds : config' = [seed |-> s]
    /\ first' = NoFirst
    /\ greek' = NoGreek
    /\ mc' = [c \in Frames |-> IdleFrame]
    /\ UNCHANGED << rng, lat >>

\* The caller lets go of the object and of its configuration; the
\* generator's state stays.
Drop ==
    /\ obj # NoObj
    /\ Quiet
    /\ obj' = NoObj
    /\ first' = NoFirst
    /\ greek' = NoGreek
    /\ out' = NoOut
    /\ config' = [seed |-> SeedValue]
    /\ mc' = [c \in Frames |-> IdleFrame]
    /\ UNCHANGED << rng, lat >>

\* price() up to its loop: the terminal stock prices and payoffs.
CRRPriceStart ==
    /\ obj.cls = "crr"
    /\ Quiet
    /\ first.calls < MaxCalls
    /\ LET sp == build_stock_price_tree(obj)
       IN  lat' = [pc |-> "loop", i |-> obj.n - 1, stock_price |-> sp,
                   option_values |-> option_payoff(obj, sp)]
    /\ out' = NoOut
    /\ greek' = NoGreek
    /\ UNCHANGED << rng, obj, config, mc, first >>

\* One pass of for i in range(n - 1, -1, -1).
CRRPriceStep ==
    /\ lat.pc = "loop"
    /\ lat.i >= 0
    /\ \E nx \in {InductionStep(obj, lat.stock_price, lat.option_values)} :
           lat' = [lat EXCEPT !.i = lat.i - 1, !.stock_price = nx.stock_price,
                              !.option_values = nx.option_values]
    /\ UNCHANGED << rng, obj, config, mc, first, out, greek >>

\* return option_values[0]
CRRPriceReturn ==
    /\ lat.pc = "loop"
    /\ lat.i < 0
    /\ LET res == RootValue(obj, lat.option_values)
       IN  /\ out' = Ended("price", res, NonPositive(obj))
           /\ first' = PriceEnded(res, 0, << >>)
    /\ lat' = IdleLattice
    /\ UNCHANGED << rng, obj, config, mc, greek >>

\* greeks() of crr_american_option_pricing.py
CRRGreeksCall ==
    /\ obj.cls = "crr"
    /\ Quiet
    /\ NoGreeksYet
    /\ \E g \in {CRRGreeks(obj)} :
           /\ greek' = [name |-> "greeks", legs |-> g.legs, greeks |-> g.greeks, val |-> NaN]
           /\ out' = Ended("greeks", g.outcome, NonPositive(obj))
    /\ first' = GreeksEnded
    /\ obj' = CRRGreeksSelf(obj)
    /\ UNCHANGED << rng, config, lat, mc >>

\* greeks() of CRR_pricing_model.py
CRRModelGreeksCall ==
    /\ obj.cls = "crr"
    /\ Quiet
    /\ NoGreeksYet
    /\ \E g \in {CRRModelGreeks(obj)} :
           /\ greek' = [name |-> "model_greeks", legs |-> g.legs, greeks |-> g.greeks,
                        val |-> NaN]
           /\ out' = Ended("model_greeks", g.outcome, NonPositive(obj))
    /\ first' = GreeksEnded
    /\ obj' = CRRModelGreeksSelf(obj)
    /\ UNCHANGED << rng, config, lat, mc >>

\* The price property begins: simulate_stock_paths seeds the generator.
LSMCPriceStart(c) ==
    /\ obj.cls = "lsmc"
    /\ Quiet
    /\ first.calls < MaxCalls
    /\ \E s \in {MCStart(obj, config, rng)} :
           /\ rng' = s.rng
           /\ mc' = [mc EXCEPT ![c] = s.frame]
    /\ out' = NoOut
    /\ greek' = NoGreek
    /\ UNCHANGED << obj, config, lat, first >>

\* One column of simulate_stock_paths.
LSMCSimStep(c) ==
    /\ mc[c].pc = "sim"
    /\ mc[c].t <= mc[c].obj.M
    /\ \E s \in {MCSimStep(mc[c], rng)} :
           /\ rng' = s.rng
           /\ mc' = [mc EXCEPT ![c] = s.frame]
    /\ UNCHANGED << obj, config, lat, first, out, greek >>

\* simulate_stock_paths returns; payoffs and the terminal cashflows.
LSMCPayoffs(c) ==
    /\ mc[c].pc = "sim"
    /\ mc[c].t > mc[c].obj.M
    /\ mc' = [mc EXCEPT ![c] = MCPayoffs(mc[c])]
    /\ UNCHANGED << rng, obj, config, lat, first, out, greek >>

\* One pass of for t in range(M - 1, 0, -1).
LSMCBackStep(c) ==
    /\ mc[c].pc = "back"
    /\ mc[c].t >= 1
    /\ mc' = [mc EXCEPT ![c] = MCBackStep(mc[c])]
    /\ UNCHANGED << rng, obj, config, lat, first, out, greek >>

\* option_price = np.mean(cashflows) * discount
LSMCMean(c) ==
    /\ mc[c].pc = "back"
    /\ mc[c].t < 1
    /\ mc' = [mc EXCEPT ![c] = MCFinish(mc[c])]
    /\ UNCHANGED << rng, obj, config, lat, first, out, greek >>

\* The price property ends: its value, or its exception, reaches the caller.
LSMCPriceEnd(c) ==
    /\ mc[c].pc = "done"
    /\ out = NoOut
    /\ greek = NoGreek
    /\ out' = Ended("price", mc[c].outcome, NonPositive(mc[c].obj))
    /\ first' = PriceEnded(mc[c].outcome, mc[c].seed, mc[c].draws)
    /\ UNCHANGED << rng, obj, config, lat, mc, greek >>

\* One of the Greek properties of the Monte Carlo pricer.
LSMCGreek(name, res) ==
    /\ greek' = [name |-> name, legs |-> res.legs, greeks |-> NoGreeks, val |-> res.val]
    /\ out' = Ended(name, res.outcome, NonPositive(obj))
    /\ rng' = res.rng
    /\ first' = GreeksEnded
    /\ obj' = LSMCGreekSelf(obj)
    /\ UNCHANGED << config, lat, mc >>

\* The delta property.
LSMCDeltaCall ==
    /\ obj.cls = "lsmc"
    /\ Quiet
    /\ NoGreeksYet
    /\ \E res \in {LSMCDelta(obj, config, rng)} : LSMCGreek("Delta", res)

\* The gamma property.
LSMCGammaCall ==
    /\ obj.cls = "lsmc"
    /\ Quiet
    /\ NoGreeksYet
    /\ \E res \in {LSMCGamma(obj, config, rng)} : LSMCGreek("Gamma", res)

\* The vega property.
LSMCVegaCall ==
    /\ obj.cls = "lsmc"
    /\ Quiet
    /\ NoGreeksYet
    /\ \E res \in {LSMCVega(obj, config, rng)} : LSMCGreek("Vega", res)

\* The rho property.
LSMCRhoCall ==
    /\ obj.cls = "lsmc"
    /\ Quiet
    /\ NoGreeksYet
    /\ \E res \in {LSMCRho(obj, config, rng)} : LSMCGreek("Rho", res)

\* The theta property.
LSMCThetaCall ==
    /\ obj.cls = "lsmc"
    /\ Quiet
    /\ NoGreeksYet
    /\ \E res \in {LSMCTheta(obj, config, rng)} : LSMCGreek("Theta", res)

Next ==
    \/ NewCRR
    \/ NewLSMC
    \/ Drop
    \/ CRRPriceStart
    \/ CRRPriceStep
    \/ CRRPriceReturn
    \/ CRRGreeksCall
    \/ CRRModelGreeksCall
    \/ LSMCPriceStart(1)
    \/ LSMCSimStep(1)
    \/ LSMCPayoffs(1)
    \/ LSMCBackStep(1)
    \/ LSMCMean(1)
    \/ LSMCPriceEnd(1)
    \/ LSMCDeltaCall
    \/ LSMCGammaCall
    \/ LSMCVegaCall
    \/ LSMCRhoCall
    \/ LSMCThetaCall

Spec == Init /\ [][Next]_vars

----------------------------------------------------------------------------
(* The claims *)

\* The call that just ended was price(), on the object the caller holds.
PriceEndedNow == out.op = "price"

\* C1: a lattice price request whose risk-neutral probability p lies outside
\* [0, 1] fails fast: the call ends in an exception (whatever its class), and
\* no price computed from such a p is returned.
C1_InvalidProbabilityFailsFast ==
    (PriceEndedNow /\ obj.cls = "crr" /\ ~obj.nan /\ (obj.p < 0 \/ obj.p > ONE))
        => out.outcome.kind = "raise"

\* C2: at a backward step of a simulation of at least one path, with fewer
\* than Degree + 1 paths in the money (none included), no error arises, and every in-the-money path keeps its discounted
\* cashflow: none is exercised at that step.
C2_RegressionFallback ==
    [][(/\ mc[1].pc = "back"
        /\ mc[1].t >= 1
        /\ mc'[1] # mc[1]
        /\ mc[1].obj.simulations >= 1
        /\ Cardinality(InTheMoney(mc[1])) < Degree + 1)
       => (/\ mc'[1].outcome.kind # "raise"
           /\ \A i \in InTheMoney(mc[1]) :
                 mc'[1].cashflows[i] = FMul(mc[1].cashflows[i], mc[1].obj.discount))]_vars

\* C3: at every backward step every out-of-the-money path has its cashflow
\* multiplied by the one-step discount factor, and is never exercised.
C3_OutOfTheMoneyDiscounted ==
    [][(/\ mc[1].pc = "back"
        /\ mc[1].t >= 1
        /\ mc'[1] # mc[1]
        /\ mc'[1].outcome.kind # "raise")
       => \A i \in (1..Len(mc[1].cashflows)) \ InTheMoney(mc[1]) :
             mc'[1].cashflows[i] = FMul(mc[1].cashflows[i], mc[1].obj.discount)]_vars

\* C4: whenever the lattice returns an American price, it is at least the
\* European price of the identical parameters.
C4_AmericanAtLeastEuropean ==
    (PriceEndedNow /\ obj.cls = "crr" /\ obj.american /\ out.outcome.kind = "value"
        /\ ~out.outcome.val.nan)
        => LET european == CRRPrice([obj EXCEPT !.american = FALSE])
           IN  european.kind = "value" /\ ~european.val.nan
                   => out.outcome.val.v >= european.val.v

MCGreekNames == {"Delta", "Gamma", "Vega", "Rho", "Theta"}

\* C5: every leg of a Monte Carlo Greek starts its simulation from the same
\* seed and consumes the same normal draws as every other leg, and as the
\* base price of the object when the caller has read it.
C5_CommonRandomNumbers ==
    greek.name \in MCGreekNames =>
        \A j \in 1..Len(greek.legs) :
            /\ \A k \in 1..Len(greek.legs) :
                  /\ greek.legs[j].seed = greek.legs[k].seed
                  /\ greek.legs[j].draws = greek.legs[k].draws
            /\ first.calls >= 1 =>
                  /\ greek.legs[j].seed = first.seed
                  /\ greek.legs[j].draws = first.draws

\* A four-leg Gamma computed after the base price, with draws consumed, while
\* the generator had been left elsewhere by earlier calls.
C5_Witness ==
    /\ greek.name = "Gamma"
    /\ Len(greek.legs) = 4
    /\ out.outcome.kind = "value"
    /\ first.calls >= 1
    /\ Len(first.draws) >= 2
    /\ first.outcome.kind = "value"

\* C6: a simulation that drew its normals started from the seed the
\* caller's configuration names.
C6_SeedIsCallersParameter ==
    \A c \in Frames : Len(mc[c].draws) > 0 => mc[c].seed = config.seed

\* C7: a later price call on the same object, lattice or Monte Carlo, returns
\* what the first returned, whatever Greek calls (which price other objects)
\* ran in between.
C7_Idempotent ==
    (PriceEndedNow /\ first.calls >= 2) => out.outcome = first.outcome

\* A second Monte Carlo price, a number, read after Greeks ran in between.
C7_Witness ==
    /\ PriceEndedNow
    /\ obj.cls = "lsmc"
    /\ first.calls = 2
    /\ first.greeks_since
    /\ out.outcome.kind = "value"
    /\ ~out.outcome.val.nan
    /\ Len(first.draws) >= 2

\* C8: a constructor or price call made with nonpositive steps, paths or
\* timeSteps ends in an exception (whatever its class): no value is returned.
C8_NonPositiveAborts ==
    (out.op \in {"price", "CRR.__init__", "LSMC.__init__"} /\ out.nonpositive
        /\ out.outcome.kind # "none")
        => out.outcome.kind = "raise"

\* A leg whose perturbation is epsilon, or the 2 epsilon of Gamma, times the
\* value of the variable it perturbs.
RelativeLeg(l) ==
    \E k \in 1..2 : Abs(l.arg - l.base) = FMul(l.base, k * Epsilon)

\* C9: every spot, volatility and rate leg of the Greeks perturbs its variable
\* by epsilon times the variable's value.  (The spot legs of
\* CRR_pricing_model.py sit on S*u and S*d, proportional to S, and are left
\* out.)
C9_BumpsRelative ==
    \A k \in 1..Len(greek.legs) :
        LET l == greek.legs[k]
        IN  (/\ l.var \in {"S", "sigma", "r"}
             /\ l.arg # l.base
             /\ ~(greek.name = "model_greeks" /\ l.var = "S"))
            => RelativeLeg(l)

\* The spots the Gamma of the last Greeks call priced.
GammaSpots ==
    {greek.legs[k].arg : k \in {m \in 1..Len(greek.legs) : greek.legs[m].greek = "Gamma"}}

\* The object's own spot.
OwnSpot == IF obj.cls = "crr" THEN obj.S ELSE obj.S0

\* C10: a Gamma that was returned is built from exactly the three prices at
\* the spots S(1 + 2e), S and S(1 - 2e).
C10_GammaThreePoint ==
    (greek.name \in {"greeks", "model_greeks", "Gamma"} /\ out.outcome.kind # "raise")
        => GammaSpots = {FMul(OwnSpot, ONE + 2 * Epsilon), OwnSpot,
                         FMul(OwnSpot, ONE - 2 * Epsilon)}

\* Rounding slack of the fixed-point arithmetic allowed on a Greek's bound.
GreekSlack == SCALE \div 50

\* C11: the Delta the lattice Greeks return lies in [0, 1] for a call and in
\* [-1, 0] for a put, and the Gamma is not negative (each up to the rounding
\* slack of the arithmetic).
C11_DeltaGammaBounds ==
    (greek.name = "greeks" /\ out.outcome.kind # "raise"
        /\ ~greek.greeks.Delta.nan /\ ~greek.greeks.Gamma.nan)
        => /\ obj.option_type = "call" =>
                  /\ greek.greeks.Delta.v >= 0 - GreekSlack
                  /\ greek.greeks.Delta.v <= ONE + GreekSlack
           /\ obj.option_type = "put" =>
                  /\ greek.greeks.Delta.v >= 0 - ONE - GreekSlack
                  /\ greek.greeks.Delta.v <= GreekSlack
           /\ greek.greeks.Gamma.v >= 0 - GreekSlack

\* C12: no call on a pricer changes the object it is made on (its base
\* parameters and the derived dt, u, d, p), Greeks included, and a price read
\* after Greeks is the price read before them.
C12_GreeksDoNotMutate ==
    [][/\ (obj.cls # "none" /\ obj'.cls # "none") => obj' = obj
       /\ (out'.op = "price" /\ first'.calls >= 2 /\ first'.greeks_since)
              => out'.outcome = first.outcome]_vars

\* A lattice price read a second time, after Greeks ran on the object.
C12_Witness ==
    /\ PriceEndedNow
    /\ obj.cls = "crr"
    /\ ~obj.nan
    /\ first.calls = 2
    /\ first.greeks_since
    /\ out.outcome.kind = "value"

----------------------------------------------------------------------------
(* Two price calls of a Monte Carlo pricer running interleaved *)

\* A Monte Carlo pricer constructed with positive time steps and paths, no
\* call made on it yet, and nobody having seeded the generator.
InitInterleaved ==
    /\ rng \in {[seed |-> 0 - 1, state |-> e] : e \in EntropyStates}
    /\ obj \in {LSMCFields(S0, K, T, M, r, 0, sigma, ot, N) :
                  S0 \in Spots, K \in Strikes, T \in Maturities,
                  M \in 1..MaxTimeSteps, r \in MCRates, sigma \in Vols,
                  ot \in OptionTypes, N \in 1..MaxPaths}
    /\ config = [seed |-> SeedValue]
    /\ lat = IdleLattice
    /\ mc = [c \in Frames |-> IdleFrame]
    /\ first = NoFirst
    /\ out = NoOut
    /\ greek = NoGreek

\* The price property begins in activation c, whatever the other activation
\* is doing: simulate_stock_paths seeds the one generator of the process.
LSMCPriceStartConcurrent(c) ==
    /\ obj.cls = "lsmc"
    /\ mc[c].pc = "idle"
    /\ \E s \in {MCStart(obj, config, rng)} :
           /\ rng' = s.rng
           /\ mc' = [mc EXCEPT ![c] = s.frame]
    /\ UNCHANGED << obj, config, lat, first, out, greek >>

\* The steps of the two activations in any order; a step is one statement of
\* the loops of simulate_stock_paths and price.
NextInterleaved ==
    \E c \in Frames :
        \/ LSMCPriceStartConcurrent(c)
        \/ LSMCSimStep(c)
        \/ LSMCPayoffs(c)
        \/ LSMCBackStep(c)
        \/ LSMCMean(c)

SpecInterleaved == InitInterleaved /\ [][NextInterleaved]_vars

\* The price call of object o run alone, from start to end.
Alone(o) == LSMCPrice(o, config, rng).frame

\* C13: a Monte Carlo price call that ran interleaved with another drew the
\* normals, and ended with the outcome, of the same call run alone.
C13_InterleavedAsAlone ==
    \A c \in Frames :
        mc[c].pc = "done" =>
            /\ mc[c].draws = Alone(mc[c].obj).draws
            /\ mc[c].outcome = Alone(mc[c].obj).outcome

\* C14: in the price() of an American contract, once a backward step has run,
\* every node's option value is at least the intrinsic payoff of the node's
\* stock price; and the root value returned is at least the intrinsic payoff
\* at spot (up to the rounding of the root's stock price) and not negative.
C14_EarlyExerciseDominance ==
    /\ (lat.pc = "loop" /\ obj.american /\ ~obj.nan /\ lat.i < obj.n - 1)
          => \A k \in 1..Len(lat.option_values) :
                lat.option_values[k] >= option_payoff(obj, lat.stock_price)[k]
    /\ (PriceEndedNow /\ obj.cls = "crr" /\ obj.american /\ ~obj.nan
            /\ out.outcome.kind = "value")
          => /\ out.outcome.val.v >= option_payoff(obj, << obj.S >>)[1] - GreekSlack
             /\ out.outcome.val.v >= 0

\* S * u**j * d**(i - j), the stock price of node j of step i, computed as
\* build_stock_price_tree computes the terminal nodes.
NodePrice(o, i, j) == build_stock_price_tree([o EXCEPT !.n = i])[j + 1]

\* Two stock prices equal up to the rounding of the fixed-point products that
\* lead to them (one part in a hundred).
SamePrice(a, b) == Abs(a - b) <= Abs(b) \div 100

\* C15: in price(), after the collapse for step i (lat.i is then i - 1) the
\* stock-price array has i + 1 entries, entry j is S * u**j * d**(i - j) up to
\* rounding, and the option-value array has the same length; after step 0
\* exactly one value remains.
C15_Recombining ==
    (lat.pc = "loop" /\ obj.n >= 1 /\ lat.i < obj.n - 1)
        => /\ Len(lat.stock_price) = lat.i + 2
           /\ Len(lat.option_values) = Len(lat.stock_price)
           /\ \A k \in 1..Len(lat.stock_price) :
                 SamePrice(lat.stock_price[k], NodePrice(obj, lat.i + 1, k - 1))
           /\ lat.i = 0 - 1 => Len(lat.option_values) = 1

\* Two collapses of a lattice of the most steps done, two nodes left.
C15_Witness ==
    /\ lat.pc = "loop"
    /\ obj.n >= 3
    /\ lat.i = obj.n - 3
    /\ Len(lat.stock_price) = obj.n - 1
    /\ lat.stock_price[1] # lat.stock_price[2]

====
